---- MODULE Spec2Model ----
(***************************************************************************)
(* Model of the quiz-attempt progression and scoring logic of the          *)
(* assessify backend (base/models.py, base/serializers.py, api/views.py).  *)
(* The relational store is the only shared state; every request handler    *)
(* is one action.  Decimal scores are integers counting hundredths         *)
(* (100.00 is 10000).  Times of a question attempt are measured in seconds *)
(* from its started_at.                                                    *)
(***************************************************************************)
EXTENDS Integers, Sequences, FiniteSets, TLC

\* ------------------------------------------------------------------ bounds
MaxAttempts == 2          \* StudentQuizAttempt rows the model creates
MaxQuestions == 3         \* Question rows the model creates
MaxAllowed == 2           \* largest allowed_attempts a teacher enters
MaxTexts == 2             \* longest "answers" list of an answer-submit
MaxInflight == 2          \* POST /attempts/ requests in flight at once
MaxTotal == 32            \* largest answer count the rounding is tabulated for
MaxCodes == 3             \* distinct codes generate_code draws from
MaxQuizzes == 3           \* Quiz rows the model creates
MaxOrderValue == 4        \* largest order Question.objects.create assigns
MaxPending == 2           \* next-question and answer-submit requests in flight at once

\* ------------------------------------------------------- fixed populations
NULL == -1                \* a null column (all nullable columns are numeric)
Now == 1                  \* the instant timezone.now() stamps completed_at with

Students == {"s1", "s2"}
Teachers == {"t1", "t2"}
Classrooms == {"c1"}
ClassroomTeacher == [c \in Classrooms |-> "t1"]
\* Classroom ids in the order the store hands them out
ClassroomIds == <<"c1", "c2">>
\* generate_code's results, and the draws of one generate_for_class call
Codes == 1..MaxCodes
Draws == [{1, 2} -> Codes]
QuizIds == {1, 2}
QIds == 1..MaxQuestions
AttemptIds == 1..MaxAttempts
Texts == {"paris", "Rome", "Oslo"}
TimeLimits == {NULL, 60}
ElapsedTimes == {58, 59, 65}
AllowedValues == 1..MaxAllowed
\* request bodies of the teacher's question create and partial update
CreateFlags == {FALSE}
CreateLimits == {NULL}
QuestionPatches == {[text |-> "edited"]}
\* the answers lists and the instant of racing answer-submit requests
RaceTexts == {<<"paris">>, <<"Rome">>}
RaceTimes == {58}
\* the order keyword of Question.objects.create: absent, or explicit
ExplicitOrders == {5}
CreateOrders == {NULL} \cup ExplicitOrders
\* request bodies of the teacher's quiz and answer create
CreateAllowed == {1}
AnswerTexts == {"Oslo"}

VARIABLES
    students,          \* Classroom.students, per classroom
    quizzes,           \* Quiz rows: id -> [classroom, is_active, allowed_attempts]
    questions,         \* Question rows: id -> [quiz, order, has_multiple_answers, time_limit]
    answers,           \* Answer rows: set of [question, text, is_correct]
    attempts,          \* StudentQuizAttempt rows, the row of id i at index i
    question_attempts, \* StudentQuestionAttempt rows, keyed by (quiz_attempt, question)
    student_answers,   \* StudentAnswer rows: set of [quiz_attempt, question, text, is_correct]
    served,            \* history: per attempt, the questions next-question returned, in order
    edited,            \* history: per attempt, whether its quiz's questions were edited since it started
    inflight,          \* POST /attempts/ requests between their checks and their insert
    classrooms,        \* Classroom rows: id -> teacher
    enrollment_codes,  \* EnrollmentCode rows, the row of id k at index k
    pending            \* next-question and answer-submit requests between their reads and their writes

vars == <<students, quizzes, questions, answers, attempts, question_attempts,
          student_answers, served, edited, inflight, classrooms, enrollment_codes,
          pending>>

\* --------------------------------------------------------------- helpers
RECURSIVE SeqSet(_)
SeqSet(s) == IF s = <<>> THEN {} ELSE {Head(s)} \cup SeqSet(Tail(s))

SeqsUpTo(S, n) == UNION {[1..k -> S] : k \in 0..n}

Max(S) == CHOOSE x \in S : \A y \in S : y <= x

\* text__iexact compares case-folded texts
Lower(t) ==
    CASE t = "Paris" -> "paris"
      [] t = "PARIS" -> "paris"
      [] t = "Rome" -> "rome"
      [] t = "Oslo" -> "oslo"
      [] OTHER -> t

QuizQuestions(q) == {i \in DOMAIN questions : questions[i].quiz = q}

QuizTeacher(q) == classrooms[quizzes[q].classroom]

\* ------------------------------------------------------------ Question.save
\* pk and order are NULL for a question created through the API (order is
\* read-only in QuestionSerializer); any other save takes the else branch.
QuestionSaveOrder(pk, order, quiz) ==
    IF pk = NULL /\ order = NULL
    THEN (IF QuizQuestions(quiz) = {} THEN 0
          ELSE Max({questions[i].order : i \in QuizQuestions(quiz)})) + 1
    ELSE Cardinality(QuizQuestions(quiz)) + 1

\* ------------------------------------------------- StudentQuizAttempt rows
AttemptsOf(s, q) ==
    {a \in 1..Len(attempts) : attempts[a].student = s /\ attempts[a].quiz = q}

IncompleteOf(s, q) == {a \in AttemptsOf(s, q) : attempts[a].completed_at = NULL}

\* mutation: the remaining questions not restricted to the attempt's quiz
GetNextQuestionAnyQuiz(a) ==
    LET attempted_ids == {r.question : r \in {x \in question_attempts : x.quiz_attempt = a}}
        remaining == DOMAIN questions \ attempted_ids
    IN  {i \in remaining : \A j \in remaining : questions[i].order <= questions[j].order}

\* get_next_question: the unattempted questions of the quiz, lowest order
\* first; the store picks among questions of equal order.
GetNextQuestion(a) ==
    LET attempted_ids == {r.question : r \in {x \in question_attempts : x.quiz_attempt = a}}
        remaining == QuizQuestions(attempts[a].quiz) \ attempted_ids
    IN  {i \in remaining : \A j \in remaining : questions[i].order <= questions[j].order}

\* mutation: the quotient truncated instead of rounded
QuantizeTruncate(n, d) == (100 * n) \div d

\* Decimal(n) / Decimal(d) quantized to 0.01 with ROUND_HALF_UP, in hundredths
QuantizeHalfUp(n, d) == (2 * 100 * n + d) \div (2 * d)

AnswersUnder(a) == {r \in student_answers : r.quiz_attempt = a}

CalculateScore(a) ==
    LET total == Cardinality(AnswersUnder(a))
        correct == Cardinality({r \in AnswersUnder(a) : r.is_correct})
    IN  IF total # 0 THEN QuantizeHalfUp(correct * 100, total) ELSE 0

\* ---------------------------------------------------------- StudentAnswer
QuestionAttempt(a, i) ==
    CHOOSE r \in question_attempts : r.quiz_attempt = a /\ r.question = i

HasQuestionAttempt(a, i) ==
    \E r \in question_attempts : r.quiz_attempt = a /\ r.question = i

GetCorrectAnswers(i) == {r \in answers : r.question = i /\ r.is_correct}

\* mutation: the limit compared without the 2-second deduction
StudentAnswerSaveNoGrace(i, started_at, submitted_at, text, is_correct) ==
    IF questions[i].time_limit # NULL /\ questions[i].time_limit # 0
       /\ submitted_at - started_at > questions[i].time_limit
    THEN FALSE
    ELSE \E r \in GetCorrectAnswers(i) : Lower(r.text) = Lower(text)

\* StudentAnswer.save: the is_correct it stores for text under a question
\* attempt submitted at submitted_at; is_correct is the value the caller set
StudentAnswerSave(i, started_at, submitted_at, text, is_correct) ==
    IF questions[i].time_limit # NULL /\ questions[i].time_limit # 0
       /\ submitted_at - started_at > questions[i].time_limit - 2
    THEN FALSE
    ELSE \E r \in GetCorrectAnswers(i) : Lower(r.text) = Lower(text)

\* StudentAnswer._calculate_correctness, called by the submit view
CalculateCorrectness(i, started_at, submitted_at, text) ==
    StudentAnswerSave(i, started_at, submitted_at, text, FALSE)

\* ------------------------------------------------- POST /attempts/ (create)
QUIZ_MISSING == "Quiz does not exist."
ACTIVE_ATTEMPT == "You already have an active attempt for this quiz."
MAX_ATTEMPTS == "You have reached the maximum allowed attempts."
NOT_ENROLLED == "You are not enrolled in this quiz's classroom."
CREATED == "201 Created"

\* mutation: the enrollment of the student not looked at
CreateDetailAnyStudent(s, q) ==
    IF q \notin DOMAIN quizzes \/ ~quizzes[q].is_active THEN QUIZ_MISSING
    ELSE IF IncompleteOf(s, q) # {} THEN ACTIVE_ATTEMPT
    ELSE IF Cardinality(AttemptsOf(s, q)) >= quizzes[q].allowed_attempts
         THEN MAX_ATTEMPTS
         ELSE CREATED

\* mutation: the cap compared with > instead of >=
CreateDetailOffByOne(s, q) ==
    IF q \notin DOMAIN quizzes \/ ~quizzes[q].is_active THEN QUIZ_MISSING
    ELSE IF IncompleteOf(s, q) # {} THEN ACTIVE_ATTEMPT
    ELSE IF s \in students[quizzes[q].classroom]
         THEN IF Cardinality(AttemptsOf(s, q)) > quizzes[q].allowed_attempts
              THEN MAX_ATTEMPTS
              ELSE CREATED
         ELSE NOT_ENROLLED

\* the response of StudentQuizAttemptViewSet.create to student s posting quiz q
CreateDetail(s, q) ==
    IF q \notin DOMAIN quizzes \/ ~quizzes[q].is_active THEN QUIZ_MISSING
    ELSE IF IncompleteOf(s, q) # {} THEN ACTIVE_ATTEMPT
    ELSE IF s \in students[quizzes[q].classroom]
         THEN IF Cardinality(AttemptsOf(s, q)) >= quizzes[q].allowed_attempts
              THEN MAX_ATTEMPTS
              ELSE CREATED
         ELSE NOT_ENROLLED

\* perform_create: the row serializer.save(student=request.user) inserts
NewAttempt(s, q) == [student |-> s, quiz |-> q, completed_at |-> NULL, score |-> NULL]

InsertAttempt(s, q) ==
    /\ attempts' = Append(attempts, NewAttempt(s, q))
    /\ served' = Append(served, <<>>)
    /\ edited' = Append(edited, FALSE)

\* the StudentQuizAttempt table after the request
AttemptsAfterCreate(s, q) ==
    IF CreateDetail(s, q) = CREATED
    THEN Append(attempts, NewAttempt(s, q))
    ELSE attempts

StudentQuizAttemptCreate(s, q) ==
    /\ IF CreateDetail(s, q) = CREATED
       THEN /\ Len(attempts) < MaxAttempts
            /\ InsertAttempt(s, q)
       ELSE UNCHANGED <<attempts, served, edited>>
    /\ UNCHANGED <<students, quizzes, questions, answers, question_attempts,
                   student_answers, inflight,
                   classrooms, enrollment_codes, pending>>

\* The same handler under concurrent requests: the queries of lines 221-237
\* run first, the INSERT of super().create() later, and requests of other
\* workers run in between (no transaction, lock or constraint spans them).
CreateCheck(s, q) ==
    /\ CreateDetail(s, q) = CREATED
    /\ Len(inflight) < MaxInflight
    /\ inflight' = Append(inflight, [student |-> s, quiz |-> q])
    /\ UNCHANGED <<students, quizzes, questions, answers, attempts,
                   question_attempts, student_answers, served, edited,
                   classrooms, enrollment_codes, pending>>

CreateInsert(k) ==
    /\ k \in 1..Len(inflight)
    /\ Len(attempts) < MaxAttempts
    /\ InsertAttempt(inflight[k].student, inflight[k].quiz)
    /\ inflight' = [j \in 1..(Len(inflight) - 1) |->
                      IF j < k THEN inflight[j] ELSE inflight[j + 1]]
    /\ UNCHANGED <<students, quizzes, questions, answers, question_attempts,
                   student_answers,
                   classrooms, enrollment_codes, pending>>

\* ------------------------------------ GET /attempts/{id}/next-question/
NOT_FOUND == "404 Not Found"
OK == "200 OK"

\* mutation: the attempt looked up among all students' attempts
NextQuestionDetailAnyStudent(u, a) ==
    IF a \in 1..Len(attempts) THEN OK ELSE NOT_FOUND

\* get_object over get_queryset: only the caller's own attempts are found
NextQuestionDetail(u, a) ==
    IF a \in 1..Len(attempts) /\ attempts[a].student = u THEN OK ELSE NOT_FOUND

\* mutation: completion without calculate_score
CompletedUnscored(a) == [attempts[a] EXCEPT !.completed_at = Now]

\* the attempt row after calculate_score and the view's two saves
Completed(a) ==
    [attempts[a] EXCEPT !.completed_at = Now, !.score = CalculateScore(a)]

\* get_question_and_attempt surfaces question i: get_or_create of its row
SurfaceQuestion(a, i) ==
    /\ question_attempts' =
         IF HasQuestionAttempt(a, i) THEN question_attempts
         ELSE question_attempts \cup
              {[quiz_attempt |-> a, question |-> i, started_at |-> 0,
                submitted_at |-> NULL]}
    /\ served' = [served EXCEPT ![a] = Append(@, i)]
    /\ UNCHANGED attempts

NextQuestion(u, a) ==
    /\ IF NextQuestionDetail(u, a) = NOT_FOUND
       THEN UNCHANGED <<attempts, question_attempts, served>>
       ELSE IF GetNextQuestion(a) # {}
       THEN \E i \in GetNextQuestion(a) : SurfaceQuestion(a, i)
       ELSE IF attempts[a].completed_at = NULL
       THEN /\ attempts' = [attempts EXCEPT ![a] = Completed(a)]
            /\ UNCHANGED <<question_attempts, served>>
       ELSE UNCHANGED <<attempts, question_attempts, served>>
    /\ UNCHANGED <<students, quizzes, questions, answers, student_answers,
                   edited, inflight,
                   classrooms, enrollment_codes, pending>>

\* ------------------------------------------- GET /attempts/ and /archived/
\* list over get_queryset: the caller's own attempts
ListAttempts(u) == {a \in 1..Len(attempts) : attempts[a].student = u}

\* archived: the attempts whose student is not in the quiz's classroom; the
\* query starts from StudentQuizAttempt.objects, not from get_queryset
Archived(u) ==
    {a \in 1..Len(attempts) :
        attempts[a].student \notin students[quizzes[attempts[a].quiz].classroom]}

\* ------------------------------------------------- POST /answer-submit/
QA_MISSING == "Question attempt does not exist."
ALREADY_COMPLETED == "This question attempt has already been completed."
ONLY_ONE == "This question allows only one answer."
SUBMITTED == "Answers submitted successfully."
INTEGRITY_ERROR == "500 IntegrityError"

\* bulk_create fails as a whole when two rows share (question_attempt, text)
ViolatesUnique(a, i, texts) ==
    \/ Cardinality(SeqSet(texts)) < Len(texts)
    \/ \E r \in student_answers :
          r.quiz_attempt = a /\ r.question = i /\ r.text \in SeqSet(texts)

\* mutation: the submitted_at check left out
SubmitDetailResubmit(u, a, i, texts) ==
    IF ~HasQuestionAttempt(a, i) THEN QA_MISSING
    ELSE IF attempts[a].student # u THEN QA_MISSING
    ELSE IF ~questions[i].has_multiple_answers /\ Len(texts) > 1 THEN ONLY_ONE
    ELSE IF ViolatesUnique(a, i, texts) THEN INTEGRITY_ERROR
    ELSE SUBMITTED

\* mutation: the has_multiple_answers check left out
SubmitDetailAnyCount(u, a, i, texts) ==
    IF ~HasQuestionAttempt(a, i) THEN QA_MISSING
    ELSE IF attempts[a].student # u THEN QA_MISSING
    ELSE IF QuestionAttempt(a, i).submitted_at # NULL THEN ALREADY_COMPLETED
    ELSE IF ViolatesUnique(a, i, texts) THEN INTEGRITY_ERROR
    ELSE SUBMITTED

\* the response of StudentAnswerSubmitViewSet.create to student u posting
\* the answer texts for the question attempt (a, i)
SubmitDetail(u, a, i, texts) ==
    IF ~HasQuestionAttempt(a, i) THEN QA_MISSING
    ELSE IF attempts[a].student # u THEN QA_MISSING
    ELSE IF QuestionAttempt(a, i).submitted_at # NULL THEN ALREADY_COMPLETED
    ELSE IF ~questions[i].has_multiple_answers /\ Len(texts) > 1 THEN ONLY_ONE
    ELSE IF ViolatesUnique(a, i, texts) THEN INTEGRITY_ERROR
    ELSE SUBMITTED

\* the rows the view builds for bulk_create
NewStudentAnswers(a, i, texts, now) ==
    {[quiz_attempt |-> a, question |-> i, text |-> texts[k],
      is_correct |-> CalculateCorrectness(i, QuestionAttempt(a, i).started_at,
                                          now, texts[k])] : k \in 1..Len(texts)}

\* mutation: requests not wrapped in a transaction
AtomicRequestsOff == FALSE

\* Each request runs in one transaction (the settings module is
\* config/django/base.py): an IntegrityError rolls the request back.
AtomicRequests == TRUE

\* mutation: the answers recorded without stamping submitted_at
QuestionAttemptsAfterSubmitUnstamped(u, a, i, texts, now) == question_attempts

\* question_attempt.save() with submitted_at set, unless rolled back
QuestionAttemptsAfterSubmit(u, a, i, texts, now) ==
    IF \/ SubmitDetail(u, a, i, texts) = SUBMITTED
       \/ SubmitDetail(u, a, i, texts) = INTEGRITY_ERROR /\ ~AtomicRequests
    THEN (question_attempts \ {QuestionAttempt(a, i)}) \cup
         {[QuestionAttempt(a, i) EXCEPT !.submitted_at = now]}
    ELSE question_attempts

StudentAnswersAfterSubmit(u, a, i, texts, now) ==
    IF SubmitDetail(u, a, i, texts) = SUBMITTED
    THEN student_answers \cup NewStudentAnswers(a, i, texts, now)
    ELSE student_answers

StudentAnswerSubmit(u, a, i, texts, now) ==
    /\ question_attempts' = QuestionAttemptsAfterSubmit(u, a, i, texts, now)
    /\ student_answers' = StudentAnswersAfterSubmit(u, a, i, texts, now)
    /\ UNCHANGED <<students, quizzes, questions, answers, attempts, served,
                   edited, inflight,
                   classrooms, enrollment_codes, pending>>

\* ------------------------------------- the same handlers, interleaved
\* Requests of other workers run between the queries of one request: a
\* request is in flight from its reads to its writes.
RemoveAt(s, k) == [j \in 1..(Len(s) - 1) |-> IF j < k THEN s[j] ELSE s[j + 1]]

\* next-question up to obj.get_next_question(): the question found is held
\* by the request; with no question left the view completes the attempt
NextQuestionRead(u, a) ==
    IF NextQuestionDetail(u, a) = OK /\ GetNextQuestion(a) # {}
    THEN /\ Len(pending) < MaxPending
         /\ \E i \in GetNextQuestion(a) :
               pending' = Append(pending, [kind |-> "next", attempt |-> a,
                                           question |-> i, texts |-> <<>>])
         /\ UNCHANGED <<students, quizzes, questions, answers, attempts,
                        question_attempts, student_answers, served, edited,
                        inflight, classrooms, enrollment_codes>>
    ELSE NextQuestion(u, a)

\* the rest of next-question: get_or_create of the row of the question held
NextQuestionGetOrCreate(k) ==
    /\ k \in 1..Len(pending)
    /\ pending[k].kind = "next"
    /\ SurfaceQuestion(pending[k].attempt, pending[k].question)
    /\ pending' = RemoveAt(pending, k)
    /\ UNCHANGED <<students, quizzes, questions, answers, student_answers,
                   edited, inflight, classrooms, enrollment_codes>>

\* answer-submit up to its last check (lines 293-319): a request that
\* passed them goes on to write; a rejected one changes nothing
SubmitCheck(u, a, i, texts) ==
    /\ SubmitDetail(u, a, i, texts) \in {SUBMITTED, INTEGRITY_ERROR}
    /\ Len(pending) < MaxPending
    /\ pending' = Append(pending, [kind |-> "submit", attempt |-> a,
                                   question |-> i, texts |-> texts])
    /\ UNCHANGED <<students, quizzes, questions, answers, attempts,
                   question_attempts, student_answers, served, edited,
                   inflight, classrooms, enrollment_codes>>

\* the rest of answer-submit (lines 321-330): submitted_at is saved and the
\* rows are bulk-created, unless one of them violates the unique constraint
SubmitWrite(k, now) ==
    /\ k \in 1..Len(pending)
    /\ pending[k].kind = "submit"
    /\ LET a == pending[k].attempt
           i == pending[k].question
           texts == pending[k].texts
           failed == ViolatesUnique(a, i, texts)
       IN  /\ HasQuestionAttempt(a, i)
           /\ question_attempts' =
                IF failed /\ AtomicRequests THEN question_attempts
                ELSE (question_attempts \ {QuestionAttempt(a, i)}) \cup
                     {[QuestionAttempt(a, i) EXCEPT !.submitted_at = now]}
           /\ student_answers' =
                IF failed THEN student_answers
                ELSE student_answers \cup NewStudentAnswers(a, i, texts, now)
    /\ pending' = RemoveAt(pending, k)
    /\ UNCHANGED <<students, quizzes, questions, answers, attempts, served,
                   edited, inflight, classrooms, enrollment_codes>>

\* ------------------------------------------------ teacher: /questions/
MarkEdited(q) ==
    edited' = [a \in 1..Len(attempts) |->
                 IF attempts[a].quiz = q THEN TRUE ELSE edited[a]]

QUESTION_CREATED == "201 Created question"

\* mutation: the teacher of the quiz's classroom not compared with the caller
QuestionCreateDetailAnyTeacher(t, q) ==
    IF q \notin DOMAIN quizzes THEN QUIZ_MISSING ELSE QUESTION_CREATED

\* the response of QuestionViewSet.create to teacher t posting quiz q
QuestionCreateDetail(t, q) ==
    IF q \notin DOMAIN quizzes THEN QUIZ_MISSING
    ELSE IF QuizTeacher(q) # t THEN QUIZ_MISSING
    ELSE QUESTION_CREATED

\* the row serializer.save() inserts: order is read-only, Question.save
\* assigns it
NewQuestion(q, hm, tl) ==
    [quiz |-> q, order |-> QuestionSaveOrder(NULL, NULL, q),
     has_multiple_answers |-> hm, time_limit |-> tl]

\* the Question table after the request
QuestionsAfterCreate(t, q, hm, tl) ==
    IF QuestionCreateDetail(t, q) = QUESTION_CREATED
    THEN questions @@ ((Cardinality(DOMAIN questions) + 1) :> NewQuestion(q, hm, tl))
    ELSE questions

\* QuestionViewSet.create: a question without order, in the teacher's own quiz
QuestionCreate(t, q, hm, tl) ==
    /\ IF QuestionCreateDetail(t, q) = QUESTION_CREATED
       THEN /\ Cardinality(DOMAIN questions) < MaxQuestions
            /\ questions' = QuestionsAfterCreate(t, q, hm, tl)
            /\ MarkEdited(q)
       ELSE UNCHANGED <<questions, edited>>
    /\ UNCHANGED <<students, quizzes, answers, attempts, question_attempts,
                   student_answers, served, inflight,
                   classrooms, enrollment_codes, pending>>

\* QuestionViewSet.partial_update: serializer.update sets the patched
\* fields and saves the row
Patched(patch, field, old) == IF field \in DOMAIN patch THEN patch[field] ELSE old

QuestionUpdate(t, i, patch) ==
    /\ IF i \in DOMAIN questions /\ QuizTeacher(questions[i].quiz) = t
       THEN /\ questions' = [questions EXCEPT ![i] =
                 [quiz |-> @.quiz,
                  order |-> QuestionSaveOrder(i, @.order, @.quiz),
                  has_multiple_answers |->
                      Patched(patch, "has_multiple_answers", @.has_multiple_answers),
                  time_limit |-> Patched(patch, "time_limit", @.time_limit)]]
            /\ MarkEdited(questions[i].quiz)
       ELSE UNCHANGED <<questions, edited>>
    /\ UNCHANGED <<students, quizzes, answers, attempts, question_attempts,
                   student_answers, served, inflight,
                   classrooms, enrollment_codes, pending>>

\* QuestionViewSet.destroy: the delete cascades to the question's answers,
\* question attempts and student answers
QuestionDelete(t, i) ==
    /\ IF i \in DOMAIN questions /\ QuizTeacher(questions[i].quiz) = t
       THEN /\ questions' = [j \in DOMAIN questions \ {i} |-> questions[j]]
            /\ answers' = {r \in answers : r.question # i}
            /\ question_attempts' = {r \in question_attempts : r.question # i}
            /\ student_answers' = {r \in student_answers : r.question # i}
            /\ MarkEdited(questions[i].quiz)
       ELSE UNCHANGED <<questions, answers, question_attempts, student_answers, edited>>
    /\ UNCHANGED <<students, quizzes, attempts, served, inflight,
                   classrooms, enrollment_codes, pending>>

\* Question.objects.create(quiz=q, order=order): the manager builds the
\* instance and calls save; the new row takes an id no row holds
QuestionObjectsCreate(q, order, hm, tl) ==
    /\ q \in DOMAIN quizzes
    /\ Cardinality(DOMAIN questions) < MaxQuestions
    /\ QuestionSaveOrder(NULL, order, q) <= MaxOrderValue
    /\ LET id == CHOOSE i \in QIds :
                    i \notin DOMAIN questions /\ \A j \in QIds \ DOMAIN questions : i <= j
       IN  questions' = questions @@
               (id :> [quiz |-> q, order |-> QuestionSaveOrder(NULL, order, q),
                       has_multiple_answers |-> hm, time_limit |-> tl])
    /\ MarkEdited(q)
    /\ UNCHANGED <<students, quizzes, answers, attempts, question_attempts,
                   student_answers, served, inflight,
                   classrooms, enrollment_codes, pending>>

\* -------------------------------------------------- teacher: /quizzes/
\* QuizViewSet.update: is_active and allowed_attempts are writable
QuizUpdate(t, q, active, allowed) ==
    /\ IF q \in DOMAIN quizzes /\ QuizTeacher(q) = t
       THEN quizzes' = [quizzes EXCEPT ![q].is_active = active,
                                       ![q].allowed_attempts = allowed]
       ELSE UNCHANGED quizzes
    /\ UNCHANGED <<students, questions, answers, attempts, question_attempts,
                   student_answers, served, edited, inflight,
                   classrooms, enrollment_codes, pending>>

\* ------------------------------ teacher: /classrooms/{id}/delete-students/
\* ClassroomViewSet.delete_students: removes the given students from the
\* teacher's own classroom
DeleteStudents(t, c, ids) ==
    /\ IF c \in DOMAIN classrooms /\ classrooms[c] = t /\ ids # {}
       THEN students' = [students EXCEPT ![c] = @ \ ids]
       ELSE UNCHANGED students
    /\ UNCHANGED <<quizzes, questions, answers, attempts, question_attempts,
                   student_answers, served, edited, inflight,
                   classrooms, enrollment_codes, pending>>

\* ------------------------------------------ teacher: POST /quizzes/
CLASSROOM_MISSING == "Classroom does not exist."
QUIZ_CREATED == "201 Created quiz"

\* the response of QuizViewSet.create to teacher t posting classroom c
QuizCreateDetail(t, c) ==
    IF c \notin DOMAIN classrooms THEN CLASSROOM_MISSING
    ELSE IF classrooms[c] # t THEN CLASSROOM_MISSING
    ELSE QUIZ_CREATED

\* the Quiz table after the request; is_active defaults to true
QuizzesAfterCreate(t, c, allowed) ==
    IF QuizCreateDetail(t, c) = QUIZ_CREATED
    THEN quizzes @@ ((Cardinality(DOMAIN quizzes) + 1) :>
                       [classroom |-> c, is_active |-> TRUE, allowed_attempts |-> allowed])
    ELSE quizzes

QuizCreate(t, c, allowed) ==
    /\ QuizCreateDetail(t, c) = QUIZ_CREATED => Cardinality(DOMAIN quizzes) < MaxQuizzes
    /\ quizzes' = QuizzesAfterCreate(t, c, allowed)
    /\ UNCHANGED <<students, questions, answers, attempts, question_attempts,
                   student_answers, served, edited, inflight,
                   classrooms, enrollment_codes, pending>>

\* ------------------------------------------ teacher: POST /answers/
QUESTION_MISSING == "Question does not exist."
ANSWER_EXISTS == "An answer with this text already exists for the selected question."
ANSWER_CREATED == "201 Created answer"

\* the response of AnswerViewSet.create to teacher t posting text for
\* question i; the serializer rejects a text the question already has
AnswerCreateDetail(t, i, text) ==
    IF i \notin DOMAIN questions THEN QUESTION_MISSING
    ELSE IF QuizTeacher(questions[i].quiz) # t THEN QUESTION_MISSING
    ELSE IF \E r \in answers : r.question = i /\ r.text = text THEN ANSWER_EXISTS
    ELSE ANSWER_CREATED

\* the Answer table after the request
AnswersAfterCreate(t, i, text, is_correct) ==
    IF AnswerCreateDetail(t, i, text) = ANSWER_CREATED
    THEN answers \cup {[question |-> i, text |-> text, is_correct |-> is_correct]}
    ELSE answers

AnswerCreate(t, i, text, is_correct) ==
    /\ answers' = AnswersAfterCreate(t, i, text, is_correct)
    /\ UNCHANGED <<students, quizzes, questions, attempts, question_attempts,
                   student_answers, served, edited, inflight,
                   classrooms, enrollment_codes, pending>>

\* ---------------------------------------------------------- EnrollmentCode
Held(code) == \E k \in 1..Len(enrollment_codes) : enrollment_codes[k].code = code

CodeRecordsOf(c) == {k \in 1..Len(enrollment_codes) : enrollment_codes[k].classroom = c}

\* the loop of generate_for_class ends when a draw is held by no record
Terminates(draws) == \E k \in DOMAIN draws : ~Held(draws[k])

\* mutation: the first draw kept without looking for a collision
GeneratedCodeFirstDraw(draws) == draws[1]

\* the code generate_for_class ends up with: the first draw no record holds
GeneratedCode(draws) ==
    draws[CHOOSE k \in DOMAIN draws :
            ~Held(draws[k]) /\ \A j \in DOMAIN draws : j < k => Held(draws[j])]

\* mutation: a record created on every call
GenerateForClassCreates(c, draws) ==
    Append(enrollment_codes,
           [classroom |-> c, code |-> GeneratedCode(draws), is_active |-> TRUE])

\* the EnrollmentCode table after generate_for_class(c): the classroom's
\* record gets the new code, or a record is created with is_active = true
GenerateForClass(c, draws) ==
    IF CodeRecordsOf(c) # {}
    THEN [k \in 1..Len(enrollment_codes) |->
            IF k \in CodeRecordsOf(c)
            THEN [enrollment_codes[k] EXCEPT !.code = GeneratedCode(draws)]
            ELSE enrollment_codes[k]]
    ELSE Append(enrollment_codes,
                [classroom |-> c, code |-> GeneratedCode(draws), is_active |-> TRUE])

\* ------------------------------------------------- teacher: /classrooms/
\* ClassroomViewSet.perform_create: the classroom row, then its code
ClassroomCreate(t, draws) ==
    /\ Cardinality(DOMAIN classrooms) < Len(ClassroomIds)
    /\ Terminates(draws)
    /\ LET c == ClassroomIds[Cardinality(DOMAIN classrooms) + 1]
       IN  /\ classrooms' = classrooms @@ (c :> t)
           /\ students' = students @@ (c :> {})
           /\ enrollment_codes' = GenerateForClass(c, draws)
    /\ UNCHANGED <<quizzes, questions, answers, attempts, question_attempts,
                   student_answers, served, edited, inflight, pending>>

\* ------------------------------------- teacher: /enrollment/{classroom_id}/
\* get_object over get_queryset: only the code of the caller's own classroom
EnrollmentCodeDetail(t, c) ==
    IF c \in DOMAIN classrooms /\ classrooms[c] = t /\ CodeRecordsOf(c) # {}
    THEN OK ELSE NOT_FOUND

\* mutation: the code regenerated without setting is_active
EnrollmentCodePutSaveKeepsFlag(c, draws) == GenerateForClass(c, draws)

\* EnrollmentCodePutSerializer.save: regenerate, set is_active, save
EnrollmentCodePutSave(c, draws) ==
    LET generated == GenerateForClass(c, draws)
    IN  [k \in 1..Len(generated) |->
           IF generated[k].classroom = c
           THEN [generated[k] EXCEPT !.is_active = TRUE]
           ELSE generated[k]]

EnrollmentCodesAfterPut(t, c, draws) ==
    IF EnrollmentCodeDetail(t, c) = OK
    THEN EnrollmentCodePutSave(c, draws)
    ELSE enrollment_codes

EnrollmentCodePut(t, c, draws) ==
    /\ EnrollmentCodeDetail(t, c) = OK => Terminates(draws)
    /\ enrollment_codes' = EnrollmentCodesAfterPut(t, c, draws)
    /\ UNCHANGED <<students, quizzes, questions, answers, attempts,
                   question_attempts, student_answers, served, edited, inflight,
                   classrooms, pending>>

\* PATCH with EnrollmentCodeSerializer: is_active is the writable field
EnrollmentCodePatch(t, c, active) ==
    /\ enrollment_codes' =
         IF EnrollmentCodeDetail(t, c) = OK
         THEN [k \in 1..Len(enrollment_codes) |->
                 IF k \in CodeRecordsOf(c)
                 THEN [enrollment_codes[k] EXCEPT !.is_active = active]
                 ELSE enrollment_codes[k]]
         ELSE enrollment_codes
    /\ UNCHANGED <<students, quizzes, questions, answers, attempts,
                   question_attempts, student_answers, served, edited, inflight,
                   classrooms, pending>>

\* ------------------------------------------------------- POST /enroll/
INVALID_CODE == "Invalid or inactive enrollment code."
ALREADY_ENROLLED == "You are already enrolled in this classroom."
ENROLLED == "Successfully enrolled in the classroom."

\* EnrollmentCode.objects.get(code=code, is_active=True)
ActiveCodeRecords(code) ==
    {k \in 1..Len(enrollment_codes) :
        enrollment_codes[k].code = code /\ enrollment_codes[k].is_active}

\* mutation: the code looked up without is_active
EnrollDetailAnyCode(s, code) ==
    IF ~Held(code) THEN INVALID_CODE
    ELSE IF \E k \in 1..Len(enrollment_codes) :
               /\ enrollment_codes[k].code = code
               /\ s \in students[enrollment_codes[k].classroom]
         THEN ALREADY_ENROLLED
         ELSE ENROLLED

\* the response of EnrollView.create to student s posting code
EnrollDetail(s, code) ==
    IF ActiveCodeRecords(code) = {} THEN INVALID_CODE
    ELSE IF \E k \in ActiveCodeRecords(code) :
               s \in students[enrollment_codes[k].classroom]
         THEN ALREADY_ENROLLED
         ELSE ENROLLED

\* classroom.students after the request
StudentsAfterEnroll(s, code) ==
    IF EnrollDetail(s, code) = ENROLLED
    THEN [c \in DOMAIN students |->
            IF \E k \in 1..Len(enrollment_codes) :
                  enrollment_codes[k].code = code /\ enrollment_codes[k].classroom = c
            THEN students[c] \cup {s}
            ELSE students[c]]
    ELSE students

Enroll(s, code) ==
    /\ students' = StudentsAfterEnroll(s, code)
    /\ UNCHANGED <<quizzes, questions, answers, attempts, question_attempts,
                   student_answers, served, edited, inflight, classrooms,
                   enrollment_codes, pending>>

\* ----------------------------- teacher: /quiz/{id}/stats/{quiz_attempt_id}/
ATTEMPT_NOT_FOUND == "Quiz attempt not found."
INVALID_SCORE == "Invalid score provided."
SCORE_UPDATED == "Score updated successfully."

\* request bodies of set_score: a number (in hundredths), a text, no score
ScoreBodies ==
    {[kind |-> "number", value |-> v] : v \in {-1000, -1, 0, 8725, 10000, 10001, 11000}}
    \cup {[kind |-> "text", value |-> 0], [kind |-> "missing", value |-> 0]}

\* mutation: the queryset not restricted to the caller's quizzes
StatsQuerysetAnyTeacher(t, q) == {a \in 1..Len(attempts) : attempts[a].quiz = q}

\* TeacherStudentQuizAttemptsStatsViewSet.get_queryset: the attempts of quiz
\* q, when q is in a classroom of teacher t
StatsQueryset(t, q) ==
    {a \in 1..Len(attempts) :
        attempts[a].quiz = q /\ q \in DOMAIN quizzes /\ QuizTeacher(q) = t}

\* the response of set_score to teacher t patching attempt a under quiz q
SetScoreDetail(t, q, a, body) ==
    IF a \notin StatsQueryset(t, q) THEN ATTEMPT_NOT_FOUND
    ELSE IF body.kind # "number" \/ body.value < 0 \/ body.value > 10000
         THEN INVALID_SCORE
         ELSE SCORE_UPDATED

AttemptsAfterSetScore(t, q, a, body) ==
    IF SetScoreDetail(t, q, a, body) = SCORE_UPDATED
    THEN [attempts EXCEPT ![a].score = body.value]
    ELSE attempts

SetScore(t, q, a, body) ==
    /\ attempts' = AttemptsAfterSetScore(t, q, a, body)
    /\ UNCHANGED <<students, quizzes, questions, answers, question_attempts,
                   student_answers, served, edited, inflight, classrooms,
                   enrollment_codes, pending>>

\* ------------------------------------------------------------ the system
\* The store as BaseAPITestCase.setUp leaves it.
FixtureWith(enrolled, codes) ==
    /\ classrooms = ClassroomTeacher
    /\ enrollment_codes = codes
    /\ students = [c \in Classrooms |-> enrolled]
    /\ quizzes = (1 :> [classroom |-> "c1", is_active |-> TRUE, allowed_attempts |-> 1])
    /\ questions = (1 :> [quiz |-> 1, order |-> 1, has_multiple_answers |-> FALSE,
                          time_limit |-> 60])
                @@ (2 :> [quiz |-> 1, order |-> 2, has_multiple_answers |-> TRUE,
                          time_limit |-> NULL])
    /\ answers = {[question |-> 1, text |-> "Paris", is_correct |-> TRUE],
                  [question |-> 1, text |-> "Rome", is_correct |-> FALSE],
                  [question |-> 2, text |-> "Paris", is_correct |-> TRUE],
                  [question |-> 2, text |-> "Rome", is_correct |-> TRUE],
                  [question |-> 2, text |-> "Oslo", is_correct |-> FALSE]}
    /\ attempts = <<>>
    /\ question_attempts = {}
    /\ student_answers = {}
    /\ served = <<>>
    /\ edited = <<>>
    /\ inflight = <<>>
    /\ pending = <<>>

Fixture(enrolled) == FixtureWith(enrolled, <<>>)

Init == Fixture({"s1"})

Next ==
    \/ \E s \in Students, q \in QuizIds : StudentQuizAttemptCreate(s, q)
    \/ \E u \in Students, a \in AttemptIds : NextQuestion(u, a)
    \/ \E u \in Students, a \in AttemptIds, i \in QIds,
          texts \in SeqsUpTo(Texts, MaxTexts), now \in ElapsedTimes :
          StudentAnswerSubmit(u, a, i, texts, now)
    \/ \E t \in Teachers, i \in QIds, patch \in QuestionPatches :
          QuestionUpdate(t, i, patch)
    \/ \E t \in Teachers, i \in QIds : QuestionDelete(t, i)

Spec == Init /\ [][Next]_vars

\* Attempt bookkeeping: students start and run through attempts while the
\* teacher updates the quiz; no answers are submitted.
NextAttempts ==
    \/ \E s \in Students, q \in QuizIds : StudentQuizAttemptCreate(s, q)
    \/ \E u \in Students, a \in AttemptIds : NextQuestion(u, a)
    \/ \E t \in Teachers, q \in QuizIds, active \in BOOLEAN, allowed \in AllowedValues :
          QuizUpdate(t, q, active, allowed)

    \/ \E t \in Teachers, c \in Classrooms, ids \in SUBSET Students :
          DeleteStudents(t, c, ids)

\* the fixture with the second student added to the classroom
InitAttempts == Fixture({"s1", "s2"})

SpecAttempts == InitAttempts /\ [][NextAttempts]_vars

\* Concurrent POST /attempts/ requests: checks and inserts interleave.
NextRace ==
    \/ \E s \in Students, q \in QuizIds : CreateCheck(s, q)
    \/ \E k \in 1..MaxInflight : CreateInsert(k)
    \/ \E u \in Students, a \in AttemptIds : NextQuestion(u, a)

SpecRace == InitAttempts /\ [][NextRace]_vars

\* Two quizzes of the classroom, one question each; the teacher adds
\* questions to either while students attempt both.
InitQuizzes ==
    /\ classrooms = ClassroomTeacher
    /\ enrollment_codes = <<>>
    /\ students = [c \in Classrooms |-> {"s1", "s2"}]
    /\ quizzes = (1 :> [classroom |-> "c1", is_active |-> TRUE, allowed_attempts |-> 1])
              @@ (2 :> [classroom |-> "c1", is_active |-> TRUE, allowed_attempts |-> 1])
    /\ questions = (1 :> [quiz |-> 1, order |-> 1, has_multiple_answers |-> FALSE,
                          time_limit |-> 60])
                @@ (2 :> [quiz |-> 2, order |-> 1, has_multiple_answers |-> TRUE,
                          time_limit |-> NULL])
    /\ answers = {[question |-> 1, text |-> "Paris", is_correct |-> TRUE],
                  [question |-> 2, text |-> "Rome", is_correct |-> TRUE]}
    /\ attempts = <<>>
    /\ question_attempts = {}
    /\ student_answers = {}
    /\ served = <<>>
    /\ edited = <<>>
    /\ inflight = <<>>
    /\ pending = <<>>

NextQuizzes ==
    \/ \E s \in Students, q \in QuizIds : StudentQuizAttemptCreate(s, q)
    \/ \E u \in Students, a \in AttemptIds : NextQuestion(u, a)
    \/ \E t \in Teachers, q \in QuizIds, hm \in CreateFlags, tl \in CreateLimits :
          QuestionCreate(t, q, hm, tl)

SpecQuizzes == InitQuizzes /\ [][NextQuizzes]_vars

\* Enrollment: the fixture after generate_for_class(classroom), as in
\* EnrollViewTests.setUp; teachers create classrooms, rotate and switch
\* codes and remove students while students enroll.
InitEnroll ==
    FixtureWith({"s1"}, <<[classroom |-> "c1", code |-> 1, is_active |-> TRUE]>>)

NextEnroll ==
    \/ \E t \in Teachers, draws \in Draws : ClassroomCreate(t, draws)
    \/ \E t \in Teachers, c \in SeqSet(ClassroomIds), draws \in Draws :
          EnrollmentCodePut(t, c, draws)
    \/ \E t \in Teachers, c \in SeqSet(ClassroomIds), active \in BOOLEAN :
          EnrollmentCodePatch(t, c, active)
    \/ \E s \in Students, code \in Codes : Enroll(s, code)
    \/ \E t \in Teachers, c \in SeqSet(ClassroomIds), ids \in SUBSET Students :
          DeleteStudents(t, c, ids)

SpecEnroll == InitEnroll /\ [][NextEnroll]_vars

\* Grading: students run through attempts and the teachers patch scores.
NextStats ==
    \/ \E s \in Students, q \in QuizIds : StudentQuizAttemptCreate(s, q)
    \/ \E u \in Students, a \in AttemptIds : NextQuestion(u, a)
    \/ \E t \in Teachers, q \in QuizIds, a \in AttemptIds, body \in ScoreBodies :
          SetScore(t, q, a, body)

SpecStats == InitAttempts /\ [][NextStats]_vars

\* Authoring: each teacher owns one classroom; both create quizzes,
\* questions and answers, naming their own and the other's objects.
InitTeach ==
    /\ classrooms = ("c1" :> "t1") @@ ("c2" :> "t2")
    /\ enrollment_codes = <<>>
    /\ students = ("c1" :> {"s1"}) @@ ("c2" :> {})
    /\ quizzes = (1 :> [classroom |-> "c1", is_active |-> TRUE, allowed_attempts |-> 1])
    /\ questions = (1 :> [quiz |-> 1, order |-> 1, has_multiple_answers |-> FALSE,
                          time_limit |-> 60])
    /\ answers = {[question |-> 1, text |-> "Paris", is_correct |-> TRUE]}
    /\ attempts = <<>>
    /\ question_attempts = {}
    /\ student_answers = {}
    /\ served = <<>>
    /\ edited = <<>>
    /\ inflight = <<>>
    /\ pending = <<>>

NextTeach ==
    \/ \E t \in Teachers, c \in SeqSet(ClassroomIds), allowed \in CreateAllowed :
          QuizCreate(t, c, allowed)
    \/ \E t \in Teachers, q \in 1..MaxQuizzes, hm \in CreateFlags, tl \in CreateLimits :
          QuestionCreate(t, q, hm, tl)
    \/ \E t \in Teachers, i \in QIds, text \in AnswerTexts, is_correct \in BOOLEAN :
          AnswerCreate(t, i, text, is_correct)

SpecTeach == InitTeach /\ [][NextTeach]_vars

\* Ordering: two empty quizzes of the classroom, as in QuestionModelTest;
\* questions are created with and without an order, updated and deleted.
InitOrder ==
    /\ classrooms = ClassroomTeacher
    /\ enrollment_codes = <<>>
    /\ students = [c \in Classrooms |-> {"s1"}]
    /\ quizzes = (1 :> [classroom |-> "c1", is_active |-> TRUE, allowed_attempts |-> 1])
              @@ (2 :> [classroom |-> "c1", is_active |-> TRUE, allowed_attempts |-> 1])
    /\ questions = <<>>
    /\ answers = {}
    /\ attempts = <<>>
    /\ question_attempts = {}
    /\ student_answers = {}
    /\ served = <<>>
    /\ edited = <<>>
    /\ inflight = <<>>
    /\ pending = <<>>

NextOrder ==
    \/ \E q \in QuizIds, order \in CreateOrders, hm \in CreateFlags, tl \in CreateLimits :
          QuestionObjectsCreate(q, order, hm, tl)
    \/ \E t \in Teachers, i \in QIds, patch \in QuestionPatches :
          QuestionUpdate(t, i, patch)
    \/ \E t \in Teachers, i \in QIds : QuestionDelete(t, i)

SpecOrder == InitOrder /\ [][NextOrder]_vars

\* Concurrent next-question and answer-submit requests of one attempt:
\* reads, checks and writes interleave.
NextConcurrent ==
    \/ \E s \in Students, q \in QuizIds : StudentQuizAttemptCreate(s, q)
    \/ \E u \in Students, a \in AttemptIds : NextQuestionRead(u, a)
    \/ \E k \in 1..MaxPending : NextQuestionGetOrCreate(k)
    \/ \E u \in Students, a \in AttemptIds, i \in QIds, texts \in RaceTexts :
          SubmitCheck(u, a, i, texts)
    \/ \E k \in 1..MaxPending, now \in RaceTimes : SubmitWrite(k, now)

SpecConcurrent == Init /\ [][NextConcurrent]_vars

\* ================================================================ claims
QuestionAttemptsOf(a) == {r \in question_attempts : r.quiz_attempt = a}

\* C1: for a quiz with N questions that is not edited during the attempt, the
\* next-question calls of a fresh attempt return each question exactly once,
\* in strictly ascending order value, each with a newly created question
\* attempt; the call after the N-th returns no question and completes.
C1_AdvanceVisitsEachOnceAscending ==
    \A a \in 1..Len(attempts) : ~edited[a] =>
        LET quiz == QuizQuestions(attempts[a].quiz)
            N == Cardinality(quiz)
            sv == served[a]
        IN  /\ \A k \in 1..Len(sv) : sv[k] \in quiz /\ HasQuestionAttempt(a, sv[k])
            /\ \A j, k \in 1..Len(sv) :
                  j < k => questions[sv[j]].order < questions[sv[k]].order
            /\ Cardinality(QuestionAttemptsOf(a)) = Len(sv)
            /\ Len(sv) <= N
            /\ Len(sv) < N => attempts[a].completed_at = NULL /\ GetNextQuestion(a) # {}
            /\ Len(sv) = N => GetNextQuestion(a) = {}
            /\ attempts[a].completed_at # NULL => Len(sv) = N

\* what remains of C1 when questions may share an order value
C1_NonDecreasing ==
    \A a \in 1..Len(attempts) : ~edited[a] =>
        LET quiz == QuizQuestions(attempts[a].quiz)
            N == Cardinality(quiz)
            sv == served[a]
        IN  /\ \A k \in 1..Len(sv) : sv[k] \in quiz /\ HasQuestionAttempt(a, sv[k])
            /\ \A j, k \in 1..Len(sv) :
                  j < k => sv[j] # sv[k] /\ questions[sv[j]].order <= questions[sv[k]].order
            /\ Cardinality(QuestionAttemptsOf(a)) = Len(sv)
            /\ Len(sv) <= N
            /\ Len(sv) < N => attempts[a].completed_at = NULL /\ GetNextQuestion(a) # {}
            /\ Len(sv) = N => GetNextQuestion(a) = {}
            /\ attempts[a].completed_at # NULL => Len(sv) = N

\* C2: for every (student, quiz) pair at most one attempt has completed_at
\* null, also when POST /attempts/ requests of one student interleave.
C2_AtMostOneIncomplete ==
    \A s \in Students, q \in QuizIds : Cardinality(IncompleteOf(s, q)) <= 1

\* C3: for every (student, quiz) pair the number of attempts is at most the
\* quiz's allowed_attempts, after any creations, completions and quiz updates.
C3_AttemptsWithinAllowed ==
    \A s \in Students, q \in DOMAIN quizzes :
        Cardinality(AttemptsOf(s, q)) <= quizzes[q].allowed_attempts

\* C4: POST /attempts/ by an enrolled student who already has
\* allowed_attempts attempts for the quiz, all completed, is rejected as
\* maximum allowed attempts reached and creates no attempt.
AttemptsExhausted(s, q) ==
    /\ s \in students[quizzes[q].classroom]
    /\ Cardinality(AttemptsOf(s, q)) = quizzes[q].allowed_attempts
    /\ IncompleteOf(s, q) = {}

C4_ExhaustedRejectedAsMaximum ==
    \A s \in Students, q \in DOMAIN quizzes :
        AttemptsExhausted(s, q) =>
            CreateDetail(s, q) = MAX_ATTEMPTS /\ AttemptsAfterCreate(s, q) = attempts

\* C4 as amended: the same for an active quiz; for an inactive quiz the
\* request is rejected as quiz does not exist; no attempt is created either way.
C4_ExhaustedRejected ==
    \A s \in Students, q \in DOMAIN quizzes :
        AttemptsExhausted(s, q) =>
            /\ CreateDetail(s, q) =
                 (IF quizzes[q].is_active THEN MAX_ATTEMPTS ELSE QUIZ_MISSING)
            /\ AttemptsAfterCreate(s, q) = attempts

C4_Witness ==
    \E s \in Students, q \in DOMAIN quizzes :
        /\ AttemptsExhausted(s, q)
        /\ quizzes[q].is_active
        /\ AttemptsOf(s, q) # {}

\* C5: once a question attempt has submitted_at set, every later
\* answer-submit for it is rejected as already completed and leaves its
\* submitted_at and its StudentAnswer rows unchanged.
SubmitLeavesRows(u, a, i, texts, now) ==
    /\ QuestionAttemptsAfterSubmit(u, a, i, texts, now) = question_attempts
    /\ StudentAnswersAfterSubmit(u, a, i, texts, now) = student_answers

C5_ResubmitRejectedAsCompleted ==
    \A r \in question_attempts : r.submitted_at # NULL =>
        \A u \in Students, texts \in SeqsUpTo(Texts, MaxTexts), now \in ElapsedTimes :
            /\ SubmitDetail(u, r.quiz_attempt, r.question, texts) = ALREADY_COMPLETED
            /\ SubmitLeavesRows(u, r.quiz_attempt, r.question, texts, now)

\* C5 as amended: a later answer-submit by the student who owns the question
\* attempt is rejected as already completed, one by any other student as
\* question attempt does not exist; both leave submitted_at and the rows.
C5_ResubmitRejected ==
    \A r \in question_attempts : r.submitted_at # NULL =>
        \A u \in Students, texts \in SeqsUpTo(Texts, MaxTexts), now \in ElapsedTimes :
            /\ SubmitDetail(u, r.quiz_attempt, r.question, texts) =
                 (IF u = attempts[r.quiz_attempt].student
                  THEN ALREADY_COMPLETED ELSE QA_MISSING)
            /\ SubmitLeavesRows(u, r.quiz_attempt, r.question, texts, now)

C5_Witness ==
    \E r \in question_attempts :
        /\ r.submitted_at # NULL
        /\ \E x \in student_answers :
              x.quiz_attempt = r.quiz_attempt /\ x.question = r.question

\* C6: an answer-submit with more than one text is rejected for a question
\* with has_multiple_answers = false, leaving submitted_at and creating no
\* StudentAnswer; for a question with has_multiple_answers = true it is
\* accepted and records one StudentAnswer per text.
RowsOf(rows, a, i) == {x \in rows : x.quiz_attempt = a /\ x.question = i}

OnePerText(u, a, i, texts, now) ==
    LET after == StudentAnswersAfterSubmit(u, a, i, texts, now)
    IN  /\ SubmitDetail(u, a, i, texts) = SUBMITTED
        /\ after \ RowsOf(after, a, i) = student_answers \ RowsOf(student_answers, a, i)
        /\ Cardinality(RowsOf(after, a, i)) = Len(texts)
        /\ \A k \in 1..Len(texts) : \E x \in RowsOf(after, a, i) : x.text = texts[k]
        /\ \E x \in QuestionAttemptsAfterSubmit(u, a, i, texts, now) :
              x.quiz_attempt = a /\ x.question = i /\ x.submitted_at = now

SingleRejects(u, a, i, texts, now) ==
    /\ SubmitDetail(u, a, i, texts) \in {ONLY_ONE, ALREADY_COMPLETED, QA_MISSING}
    /\ SubmitLeavesRows(u, a, i, texts, now)

C6_MultipleTextsBySingleOrMultiple ==
    \A r \in question_attempts :
        \A u \in Students, texts \in SeqsUpTo(Texts, MaxTexts), now \in ElapsedTimes :
            Len(texts) > 1 =>
                IF questions[r.question].has_multiple_answers
                THEN OnePerText(u, r.quiz_attempt, r.question, texts, now)
                ELSE SingleRejects(u, r.quiz_attempt, r.question, texts, now)

\* C6 as amended: the acceptance holds for a request of the owning student
\* on an unsubmitted question attempt whose texts are pairwise distinct; on
\* an unsubmitted single-answer question attempt the owner's request is
\* rejected as allowing only one answer.
C6_MultipleTextsValidRequest ==
    \A r \in question_attempts :
        \A u \in Students, texts \in SeqsUpTo(Texts, MaxTexts), now \in ElapsedTimes :
            Len(texts) > 1 =>
                IF questions[r.question].has_multiple_answers
                THEN (/\ u = attempts[r.quiz_attempt].student
                      /\ r.submitted_at = NULL
                      /\ Cardinality(SeqSet(texts)) = Len(texts))
                     => OnePerText(u, r.quiz_attempt, r.question, texts, now)
                ELSE /\ SingleRejects(u, r.quiz_attempt, r.question, texts, now)
                     /\ (u = attempts[r.quiz_attempt].student /\ r.submitted_at = NULL)
                        => SubmitDetail(u, r.quiz_attempt, r.question, texts) = ONLY_ONE

C6_Witness ==
    /\ \E r \in question_attempts :
          /\ questions[r.question].has_multiple_answers
          /\ r.submitted_at # NULL
          /\ Cardinality(RowsOf(student_answers, r.quiz_attempt, r.question)) = 2
    /\ \E r \in question_attempts :
          /\ ~questions[r.question].has_multiple_answers
          /\ r.submitted_at = NULL

\* C7: a recorded StudentAnswer is incorrect when the question has a time
\* limit and submitted_at - started_at > time_limit - 2; otherwise it is
\* correct exactly when its text equals, ignoring case, the text of an answer
\* of the question flagged is_correct; a supplied is_correct is overridden.
\* (A time limit of 0 does not occur in the model.)
Graded(i, elapsed, text) ==
    IF questions[i].time_limit # NULL /\ elapsed > questions[i].time_limit - 2
    THEN FALSE
    ELSE \E k \in answers :
            k.question = i /\ k.is_correct /\ Lower(k.text) = Lower(text)

C7_RecordedAsGraded ==
    \A x \in student_answers' \ student_answers :
        \E r \in question_attempts' :
            /\ r.quiz_attempt = x.quiz_attempt /\ r.question = x.question
            /\ r.submitted_at # NULL
            /\ x.is_correct = Graded(x.question, r.submitted_at - r.started_at, x.text)

C7_SaveOverrides ==
    \A r \in question_attempts, now \in ElapsedTimes, text \in Texts, supplied \in BOOLEAN :
        StudentAnswerSave(r.question, r.started_at, now, text, supplied)
            = Graded(r.question, now - r.started_at, text)

C7_IsCorrectRule == [][C7_RecordedAsGraded]_vars /\ []C7_SaveOverrides

C7_Witness ==
    /\ \E x \in student_answers, r \in question_attempts :
          /\ r.quiz_attempt = x.quiz_attempt /\ r.question = x.question
          /\ questions[r.question].time_limit = 60 /\ r.submitted_at - r.started_at = 65
          /\ x.text = "paris" /\ ~x.is_correct
    /\ \E x \in student_answers :
          /\ x.text = "paris" /\ x.is_correct
          /\ \E k \in answers : k.question = x.question /\ k.text = "Paris" /\ k.is_correct

\* C8: calculate_score stores 100 x correct / total rounded half-up to two
\* decimals over the StudentAnswer rows under the attempt, 0.00 when there
\* are none (1 of 3 gives 33.33, 2 of 3 gives 66.67); a stored score lies in
\* [0, 100].
IsHalfUp(score, correct, total) ==
    /\ 2 * score * total - total <= 2 * 10000 * correct
    /\ 2 * 10000 * correct < 2 * score * total + total

Completes(a) == attempts[a].completed_at = NULL /\ attempts'[a].completed_at # NULL

C8_ScoreStored ==
    \A a \in 1..Len(attempts) : Completes(a) =>
        LET total == Cardinality({x \in student_answers : x.quiz_attempt = a})
            correct == Cardinality({x \in student_answers : x.quiz_attempt = a /\ x.is_correct})
        IN  IF total = 0 THEN attempts'[a].score = 0
            ELSE IsHalfUp(attempts'[a].score, correct, total)

C8_Rounding ==
    /\ \A total \in 1..MaxTotal, correct \in 0..MaxTotal :
          correct <= total => IsHalfUp(QuantizeHalfUp(100 * correct, total), correct, total)
    /\ QuantizeHalfUp(100 * 1, 3) = 3333
    /\ QuantizeHalfUp(100 * 2, 3) = 6667
    /\ \A a \in 1..Len(attempts) :
          attempts[a].score = NULL \/ attempts[a].score \in 0..10000

C8_CalculateScore == [][C8_ScoreStored]_vars /\ []C8_Rounding

C8_Witness ==
    \E a \in 1..Len(attempts) :
        /\ attempts[a].completed_at # NULL
        /\ attempts[a].score = 3333
        /\ Cardinality(AnswersUnder(a)) = 3
        /\ Cardinality({x \in AnswersUnder(a) : x.is_correct}) = 1

\* C9: when next-question finds no remaining question for an IN_PROGRESS
\* attempt, the same request sets completed_at and stores the score computed
\* over the attempt's answers (all answers correct: 100.00).
C9_CompletionStep ==
    \A u \in Students, a \in 1..Len(attempts) :
        (/\ NextQuestionDetail(u, a) = OK
         /\ attempts[a].completed_at = NULL
         /\ GetNextQuestion(a) = {}
         /\ NextQuestion(u, a))
        => /\ attempts'[a].completed_at # NULL
           /\ attempts'[a].score # NULL
           /\ LET mine == {x \in student_answers : x.quiz_attempt = a}
              IN  /\ (mine # {} /\ \A x \in mine : x.is_correct)
                        => attempts'[a].score = 10000
                  /\ (\A x \in mine : ~x.is_correct) => attempts'[a].score = 0
                  /\ mine # {} => IsHalfUp(attempts'[a].score,
                                          Cardinality({x \in mine : x.is_correct}),
                                          Cardinality(mine))

C10_CompletionLeavesScoreNull ==
    [][\A a \in 1..Len(attempts) : Completes(a) => attempts'[a].score = NULL]_vars


\* C11: every StudentAnswer belongs to a StudentQuestionAttempt whose
\* submitted_at is set: no answer exists under an unsubmitted question
\* attempt, and a step that records answers leaves their question attempt
\* submitted.
C11_AnswersUnderSubmitted ==
    \A x \in student_answers :
        /\ HasQuestionAttempt(x.quiz_attempt, x.question)
        /\ QuestionAttempt(x.quiz_attempt, x.question).submitted_at # NULL

C11_Witness ==
    /\ \E r \in question_attempts :
          /\ r.submitted_at # NULL
          /\ Cardinality(RowsOf(student_answers, r.quiz_attempt, r.question)) = 1
    /\ \E r \in question_attempts :
          /\ r.submitted_at = NULL
          /\ RowsOf(student_answers, r.quiz_attempt, r.question) = {}


\* C12: the question of every StudentQuestionAttempt belongs to the quiz of
\* its quiz attempt, for every question attempt next-question creates.
C12_QuestionOfAttemptsQuiz ==
    \A r \in question_attempts :
        /\ r.quiz_attempt \in 1..Len(attempts)
        /\ r.question \in DOMAIN questions
        /\ questions[r.question].quiz = attempts[r.quiz_attempt].quiz

C12_Witness ==
    \E r, x \in question_attempts :
        /\ attempts[r.quiz_attempt].quiz = 1
        /\ attempts[x.quiz_attempt].quiz = 2
        /\ attempts[r.quiz_attempt].student = attempts[x.quiz_attempt].student
        /\ \E i \in QuizQuestions(1) : ~HasQuestionAttempt(x.quiz_attempt, i)


\* C13: POST /enroll/ with a code that is inactive or matches no record is
\* rejected, and with an active code by a student already in the code's
\* classroom is rejected as already enrolled; both leave classroom.students
\* unchanged.  Only an active code presented by a student not yet in its
\* classroom adds that student, and only to that code's classroom.
ClassroomsOfActiveCode(code) ==
    {enrollment_codes[k].classroom : k \in ActiveCodeRecords(code)}

C13_EnrollRejections ==
    \A s \in Students, code \in Codes :
        LET after == StudentsAfterEnroll(s, code)
            cs == ClassroomsOfActiveCode(code)
        IN  /\ cs = {} =>
                 EnrollDetail(s, code) = INVALID_CODE /\ after = students
            /\ (\E c \in cs : s \in students[c]) =>
                 EnrollDetail(s, code) = ALREADY_ENROLLED /\ after = students
            /\ (cs # {} /\ \A c \in cs : s \notin students[c]) =>
                 /\ EnrollDetail(s, code) = ENROLLED
                 /\ \A c \in cs : after[c] = students[c] \cup {s}
            /\ DOMAIN after = DOMAIN students
            /\ \A c \in DOMAIN students : c \notin cs => after[c] = students[c]

C13_Witness ==
    /\ \E k \in 1..Len(enrollment_codes) : ~enrollment_codes[k].is_active
    /\ \E k \in 1..Len(enrollment_codes) :
          /\ enrollment_codes[k].is_active
          /\ enrollment_codes[k].classroom \notin Classrooms
          /\ students[enrollment_codes[k].classroom] = {"s2"}
    /\ \E code \in Codes : ~Held(code)

\* C14: no two EnrollmentCode records hold the same code, across all
\* classrooms, after any classroom creations and code regenerations.
C14_CodesUnique ==
    \A j, k \in 1..Len(enrollment_codes) :
        j # k => enrollment_codes[j].code # enrollment_codes[k].code

C14_Witness ==
    /\ Len(enrollment_codes) = Len(ClassroomIds)
    /\ \A k \in 1..Len(enrollment_codes) : enrollment_codes[k].code # k
    /\ Cardinality({enrollment_codes[k].code : k \in 1..Len(enrollment_codes)})
         = Len(ClassroomIds)

\* C15: generate_for_class on a classroom that has a code record changes only
\* that record's code (same id, same is_active, no second record); on a
\* classroom without a record it creates exactly one, with is_active = true;
\* hence every classroom has exactly one code record.
C15_GenerateUpserts ==
    /\ \A c \in SeqSet(ClassroomIds), draws \in Draws : Terminates(draws) =>
          LET after == GenerateForClass(c, draws)
              n == Len(enrollment_codes)
          IN  IF CodeRecordsOf(c) # {}
              THEN /\ Len(after) = n
                   /\ \A k \in 1..n :
                         /\ after[k].classroom = enrollment_codes[k].classroom
                         /\ after[k].is_active = enrollment_codes[k].is_active
                         /\ k \notin CodeRecordsOf(c) => after[k] = enrollment_codes[k]
              ELSE /\ Len(after) = n + 1
                   /\ after[n + 1].classroom = c
                   /\ after[n + 1].is_active
                   /\ \A k \in 1..n : after[k] = enrollment_codes[k]
    /\ \A c \in DOMAIN classrooms : Cardinality(CodeRecordsOf(c)) = 1

C15_Witness ==
    /\ Len(enrollment_codes) = Len(ClassroomIds)
    /\ \E k \in 1..Len(enrollment_codes) :
          /\ ~enrollment_codes[k].is_active
          /\ enrollment_codes[k].classroom \notin Classrooms
    /\ enrollment_codes[1].classroom = "c1" /\ enrollment_codes[1].code # 1

\* C16: after the teacher's PUT /enrollment/{classroom_id}/ on their own
\* classroom the classroom's code record holds a code different from the one
\* before and has is_active = true, whatever is_active was.
C16_PutRotatesAndActivates ==
    \A t \in Teachers, c \in DOMAIN classrooms, draws \in Draws :
        (classrooms[c] = t /\ Terminates(draws)) =>
            LET after == EnrollmentCodesAfterPut(t, c, draws)
            IN  /\ CodeRecordsOf(c) # {}
                /\ Len(after) = Len(enrollment_codes)
                /\ \A k \in CodeRecordsOf(c) :
                      /\ after[k].classroom = c
                      /\ after[k].code # enrollment_codes[k].code
                      /\ after[k].is_active

C16_Witness ==
    \E k \in 1..Len(enrollment_codes) :
        /\ ~enrollment_codes[k].is_active
        /\ enrollment_codes[k].code # k
        /\ classrooms[enrollment_codes[k].classroom] = "t2"


\* C17: set_score stores the given value when it is a number in [0, 100]
\* (0, 100 and 87.25 included) and is rejected as invalid, leaving the score,
\* when the value is negative, above 100, not a number or missing; for an
\* attempt not under one of the caller's quizzes it is rejected as not found
\* and changes nothing.
ScoreInRange(body) == body.kind = "number" /\ 0 <= body.value /\ body.value <= 10000

C17_SetScore ==
    /\ \A t \in Teachers, a \in 1..Len(attempts), body \in ScoreBodies :
          LET q == attempts[a].quiz
              after == AttemptsAfterSetScore(t, q, a, body)
          IN  IF QuizTeacher(q) # t
              THEN SetScoreDetail(t, q, a, body) = ATTEMPT_NOT_FOUND /\ after = attempts
              ELSE IF ScoreInRange(body)
              THEN /\ SetScoreDetail(t, q, a, body) = SCORE_UPDATED
                   /\ after = [attempts EXCEPT ![a].score = body.value]
              ELSE SetScoreDetail(t, q, a, body) = INVALID_SCORE /\ after = attempts
    /\ \A v \in {0, 8725, 10000} : ScoreInRange([kind |-> "number", value |-> v])

C17_Witness ==
    \E a, b \in 1..Len(attempts) :
        /\ attempts[a].score = 8725 /\ attempts[a].completed_at # NULL
        /\ attempts[b].score = 10000 /\ attempts[b].completed_at = NULL


\* C18: every StudentQuizAttempt an attempts endpoint (list, retrieve,
\* next-question, archived) returns to a student has that student as owner.
C18_OnlyOwnAttemptsReturned ==
    \A u \in Students :
        \A a \in ListAttempts(u) \cup Archived(u)
                 \cup {b \in 1..Len(attempts) : NextQuestionDetail(u, b) = OK} :
            attempts[a].student = u


\* C19: a student's next-question on an attempt owned by another student, or
\* answer-submit on a question attempt owned by another student, is rejected
\* and changes nothing: no StudentQuestionAttempt is created, no completed_at
\* or submitted_at is set and no StudentAnswer is recorded.
C19_ForeignNextQuestionStep ==
    \A u \in Students, a \in 1..Len(attempts) :
        (attempts[a].student # u /\ NextQuestion(u, a)) =>
            /\ NextQuestionDetail(u, a) = NOT_FOUND
            /\ UNCHANGED <<attempts, question_attempts, student_answers>>

C19_ForeignSubmit ==
    \A r \in question_attempts, u \in Students,
       texts \in SeqsUpTo(Texts, MaxTexts), now \in ElapsedTimes :
        attempts[r.quiz_attempt].student # u =>
            /\ SubmitDetail(u, r.quiz_attempt, r.question, texts) = QA_MISSING
            /\ SubmitLeavesRows(u, r.quiz_attempt, r.question, texts, now)

C19_ForeignRequestsRejected ==
    [][C19_ForeignNextQuestionStep]_vars /\ []C19_ForeignSubmit

C19_Witness ==
    \E a \in 1..Len(attempts), r \in question_attempts :
        /\ attempts[a].student = "s1"
        /\ attempts[a].completed_at = NULL
        /\ r.quiz_attempt = a /\ r.submitted_at = NULL
        /\ GetNextQuestion(a) # {}
        /\ "s2" \notin students[quizzes[attempts[a].quiz].classroom]


\* C20: POST /attempts/ by a student who is not in the quiz's classroom is
\* always rejected with the not-enrolled rejection, distinct from the
\* active-attempt and attempts-exhausted rejections, and creates no attempt.
C20_NotEnrolledRejectedAsForbidden ==
    /\ NOT_ENROLLED \notin {ACTIVE_ATTEMPT, MAX_ATTEMPTS}
    /\ \A s \in Students, q \in DOMAIN quizzes :
          s \notin students[quizzes[q].classroom] =>
              /\ CreateDetail(s, q) = NOT_ENROLLED
              /\ AttemptsAfterCreate(s, q) = attempts

\* C20 as amended: the request is always rejected and creates no attempt;
\* the rejection is the not-enrolled one when the quiz is active and the
\* student has no incomplete attempt for it, quiz does not exist when the
\* quiz is inactive, and active attempt when the quiz is active and an
\* attempt the student started while enrolled is still incomplete.
C20_NotEnrolledRejected ==
    /\ NOT_ENROLLED \notin {ACTIVE_ATTEMPT, MAX_ATTEMPTS, QUIZ_MISSING, CREATED}
    /\ \A s \in Students, q \in DOMAIN quizzes :
          s \notin students[quizzes[q].classroom] =>
              /\ CreateDetail(s, q) =
                   (IF ~quizzes[q].is_active THEN QUIZ_MISSING
                    ELSE IF \E a \in AttemptsOf(s, q) : attempts[a].completed_at = NULL
                    THEN ACTIVE_ATTEMPT
                    ELSE NOT_ENROLLED)
              /\ AttemptsAfterCreate(s, q) = attempts

C20_Witness ==
    \E s \in Students, q \in DOMAIN quizzes :
        /\ s \notin students[quizzes[q].classroom]
        /\ quizzes[q].is_active
        /\ AttemptsOf(s, q) # {}
        /\ \A a \in AttemptsOf(s, q) : attempts[a].completed_at # NULL
        /\ Cardinality(AttemptsOf(s, q)) < quizzes[q].allowed_attempts


\* C21: a teacher's request to create a quiz in another teacher's classroom,
\* a question in another teacher's quiz or an answer for another teacher's
\* question is rejected as does not exist and stores nothing; every quiz,
\* question and answer a create request stores lies under a classroom owned
\* by the requesting teacher.
QuestionTeacher(i) == QuizTeacher(questions[i].quiz)

C21_ForeignCreateRejected ==
    \A t \in Teachers :
        /\ \A c \in DOMAIN classrooms, allowed \in CreateAllowed :
              /\ classrooms[c] # t =>
                    /\ QuizCreateDetail(t, c) = CLASSROOM_MISSING
                    /\ QuizzesAfterCreate(t, c, allowed) = quizzes
              /\ \A k \in DOMAIN QuizzesAfterCreate(t, c, allowed) \ DOMAIN quizzes :
                    classrooms[QuizzesAfterCreate(t, c, allowed)[k].classroom] = t
        /\ \A q \in DOMAIN quizzes, hm \in CreateFlags, tl \in CreateLimits :
              /\ QuizTeacher(q) # t =>
                    /\ QuestionCreateDetail(t, q) = QUIZ_MISSING
                    /\ QuestionsAfterCreate(t, q, hm, tl) = questions
              /\ \A k \in DOMAIN QuestionsAfterCreate(t, q, hm, tl) \ DOMAIN questions :
                    QuizTeacher(QuestionsAfterCreate(t, q, hm, tl)[k].quiz) = t
        /\ \A i \in DOMAIN questions, text \in AnswerTexts, is_correct \in BOOLEAN :
              /\ QuestionTeacher(i) # t =>
                    /\ AnswerCreateDetail(t, i, text) = QUESTION_MISSING
                    /\ AnswersAfterCreate(t, i, text, is_correct) = answers
              /\ \A r \in AnswersAfterCreate(t, i, text, is_correct) \ answers :
                    QuestionTeacher(r.question) = t

\* both teachers own a quiz with a question that has an answer
C21_Witness ==
    \A t \in Teachers :
        \E i \in DOMAIN questions :
            /\ QuestionTeacher(i) = t
            /\ \E r \in answers : r.question = i


\* C22: a question created with an explicit order keeps that order, and a
\* question created without an order gets (current max order in its quiz) + 1,
\* 1 in an empty quiz, independently for each quiz.
MaxOrder(q) ==
    IF QuizQuestions(q) = {} THEN 0
    ELSE Max({questions[i].order : i \in QuizQuestions(q)})

C22_OrderOnCreate ==
    \A q \in DOMAIN quizzes :
        /\ \A o \in ExplicitOrders : QuestionSaveOrder(NULL, o, q) = o
        /\ QuestionSaveOrder(NULL, NULL, q) = MaxOrder(q) + 1


\* C23: in every reachable state no two questions of the same quiz have the
\* same order value, after any question creations, updates and deletions.
C23_OrderUniquePerQuiz ==
    \A i, j \in DOMAIN questions :
        i # j /\ questions[i].quiz = questions[j].quiz =>
            questions[i].order # questions[j].order

\* C30: updating an existing question leaves its order unchanged: a question
\* that exists before and after a step keeps its order value.
C30_OrderKeptStep ==
    \A i \in DOMAIN questions \cap DOMAIN questions' :
        questions'[i].order = questions[i].order

C30_UpdateKeepsOrder == [][C30_OrderKeptStep]_vars


\* C24: an answer-submit whose answers list is empty is rejected, leaves the
\* question attempt unsubmitted and creates no StudentAnswer.
C24_EmptySubmitRejected ==
    \A r \in question_attempts : r.submitted_at = NULL =>
        \A u \in Students, now \in ElapsedTimes :
            /\ SubmitDetail(u, r.quiz_attempt, r.question, <<>>) # SUBMITTED
            /\ SubmitLeavesRows(u, r.quiz_attempt, r.question, <<>>, now)

\* C27: an answer-submit whose answers contain the same text twice is
\* rejected with a data-integrity error and has no partial effect: the
\* question attempt's submitted_at and the StudentAnswer rows stay as they were.
HasDuplicate(texts) == Cardinality(SeqSet(texts)) < Len(texts)

C26_RecordingStep ==
    \A r \in question_attempts :
        RowsOf(student_answers', r.quiz_attempt, r.question)
            # RowsOf(student_answers, r.quiz_attempt, r.question)
        => /\ r.submitted_at = NULL
           /\ RowsOf(student_answers, r.quiz_attempt, r.question) = {}

C26_SingleAnswerOnce ==
    \A r \in question_attempts :
        ~questions[r.question].has_multiple_answers =>
            Cardinality(RowsOf(student_answers, r.quiz_attempt, r.question)) <= 1

C26_OneSubmissionRecorded == [][C26_RecordingStep]_vars /\ []C26_SingleAnswerOnce


\* C28: next-question is idempotent between submissions: while a surfaced
\* question of an in-progress attempt is unsubmitted, a next-question call
\* returns that question again, creates no further StudentQuestionAttempt
\* and does not complete the attempt.
SurfacedQuestions(rows, a) == {r.question : r \in {x \in rows : x.quiz_attempt = a}}

UnsubmittedQuestions(a) ==
    {r.question : r \in {x \in QuestionAttemptsOf(a) : x.submitted_at = NULL}}

C28_IdempotentStep ==
    \A a \in 1..Len(attempts) :
        attempts[a].completed_at = NULL /\ UnsubmittedQuestions(a) # {} =>
            /\ attempts'[a].completed_at = NULL
            /\ SurfacedQuestions(question_attempts', a)
                   \subseteq SurfacedQuestions(question_attempts, a)
            /\ served'[a] # served[a] =>
                   served'[a][Len(served'[a])] \in UnsubmittedQuestions(a)

C28_AdvanceIdempotent == [][C28_IdempotentStep]_vars

\* C29: once an attempt's completed_at is set it is never cleared, and no
\* later step creates a StudentQuestionAttempt or a StudentAnswer under
\* that attempt.
C29_ClosedStep ==
    \A a \in 1..Len(attempts) :
        attempts[a].completed_at # NULL =>
            /\ attempts'[a].completed_at = attempts[a].completed_at
            /\ SurfacedQuestions(question_attempts', a)
                   \subseteq SurfacedQuestions(question_attempts, a)
            /\ {r \in student_answers' : r.quiz_attempt = a} \subseteq AnswersUnder(a)

C29_CompletedAbsorbing == [][C29_ClosedStep]_vars

====
